---- MODULE Spec2Model ----
(***************************************************************************)
(* FireSight-AI: the cellular-automaton fire spread simulator              *)
(* (src/backend/models/fire_spread.py, class FireSpreadSimulator).         *)
(*                                                                         *)
(* Numbers.  The program computes in floating point; the model computes in *)
(* fixed point:                                                            *)
(*   - fire intensities, moisture, cosines and direction factors are in    *)
(*     thousandths (1.0 is One = 1000, burned out -1 is BurnedOut = -1000);*)
(*   - spread rates are in cm/min (the program's m/min times 100);         *)
(*   - planar (UTM) coordinates are whole metres; resolutions are          *)
(*     multiples of 100 m so that a cell centre (+ resolution / 2) is      *)
(*     whole;                                                              *)
(*   - geographic coordinates are on a lattice: one longitude unit is 1 m  *)
(*     of easting, one latitude unit is LatUnit metres of northing.        *)
(* Rounding to float32 of the stored grid is not modelled.                 *)
(***************************************************************************)
EXTENDS Integers, Sequences, FiniteSets, TLC

VARIABLES
    ignition_points,    \* self.ignition_points: sequence of [lat, lon, intensity, detection_time]
    bounds,             \* self.bounds: [min_lat, min_lon, max_lat, max_lon]
    resolution_meters,  \* self.resolution_meters
    simulation_hours,   \* self.simulation_hours
    time_step_minutes,  \* self.time_step_minutes
    weather_data,       \* self.wind_speed / self.wind_direction taken from weather_data["current"]
    convergence,        \* the UTM projection's grid convergence at the bounds (environment)
    x_size, y_size,     \* grid dimensions
    utm_bounds,         \* [min_x, min_y, max_x, max_y]
    fire_grid,          \* self.fire_grid
    fuel_grid,          \* self.fuel_grid
    moisture_grid,      \* self.moisture_grid
    slope_grid,         \* self.slope_grid (degrees)
    aspect_grid,        \* self.aspect_grid (degrees from north)
    history,            \* self.history: insertion-ordered dict, a sequence of [key, grid]
    current_step,       \* self.current_step
    current_time,       \* self.current_time (minutes)
    step_count,         \* run_simulation's local step_count
    still_burning,      \* run_simulation's local still_burning
    pc,                 \* where run_simulation is: "run", "done"
    results,            \* what generate_results returned (empty before)
    twin,               \* a second simulator instance built from the same arguments
    probe               \* the last call of a pure method and what it returned

vars == <<ignition_points, bounds, resolution_meters, simulation_hours,
          time_step_minutes, weather_data, convergence, x_size, y_size,
          utm_bounds, fire_grid, fuel_grid, moisture_grid, slope_grid,
          aspect_grid, history, current_step, current_time, step_count,
          still_burning, pc, results, twin, probe>>

configVars == <<ignition_points, bounds, resolution_meters, simulation_hours,
                time_step_minutes, weather_data, convergence, x_size, y_size,
                utm_bounds>>

terrainVars == <<fuel_grid, moisture_grid, slope_grid, aspect_grid>>

runVars == <<fire_grid, history, current_step, current_time, step_count,
             still_burning, pc, results>>

----------------------------------------------------------------------------
(* Units and arithmetic                                                    *)

\* 1.0 in thousandths
One == 1000

\* fire_grid value of a burned out cell: -1
BurnedOut == -1000

Min(a, b) == IF a <= b THEN a ELSE b

Max(a, b) == IF a >= b THEN a ELSE b

Abs(a) == IF a >= 0 THEN a ELSE -a

\* Python's int(a / b) for b > 0: truncation toward zero
TruncDiv(a, b) == IF a >= 0 THEN a \div b ELSE -((-a) \div b)

\* ceil(a / b) for a >= 0, b > 0
CeilDiv(a, b) == (a + b - 1) \div b

RECURSIVE SeqMax(_)
SeqMax(s) == IF Len(s) = 1 THEN s[1] ELSE Max(s[1], SeqMax(Tail(s)))

----------------------------------------------------------------------------
(* Coordinate projection: grid_setup, latlon_to_grid, grid_to_latlon       *)

\* metres of northing per latitude unit of the lattice
LatUnit == 50

\* UTM false easting (m)
FalseEasting == 500000

\* transformer_to_utm.transform(lon, lat).  A transverse Mercator projection
\* is not axis-parallel away from the central meridian: the easting of a
\* meridian changes with the latitude (grid convergence).  cv is the change
\* of easting, in metres, per latitude unit; it is 0 on the central meridian.
ToUtm(lon, lat, cv) == <<FalseEasting + lon - cv * lat, LatUnit * lat>>

\* transformer_to_wgs84.transform(x, y): the inverse of ToUtm, <<lon, lat>>
ToWgs84(x, y, cv) ==
    LET lat == y \div LatUnit
    IN  <<x - FalseEasting + cv * lat, lat>>

\* the dimension rounded up instead of truncated
MutGridSize(span, res) == CeilDiv(span, res) + 1

\* int((max - min) / resolution_meters) + 1
GridSize(span, res) == TruncDiv(span, res) + 1

\* grid_setup: [x_size, y_size, utm_bounds] from bounds and resolution
grid_setup(b, res, cv) ==
    LET mn == ToUtm(b.min_lon, b.min_lat, cv)
        mx == ToUtm(b.max_lon, b.max_lat, cv)
    IN  [x_size |-> GridSize(mx[1] - mn[1], res),
         y_size |-> GridSize(mx[2] - mn[2], res),
         utm_bounds |-> [min_x |-> mn[1], min_y |-> mn[2],
                         max_x |-> mx[1], max_y |-> mx[2]]]

MutClampIndex(i, size) == Max(0, Min(i, size))

\* max(0, min(i, size - 1))
ClampIndex(i, size) == Max(0, Min(i, size - 1))

\* latlon_to_grid(lat, lon) of a simulator whose grid is g: <<row, col>>
LatLonToGrid(g, res, cv, lat, lon) ==
    LET xy  == ToUtm(lon, lat, cv)
        col == TruncDiv(xy[1] - g.utm_bounds.min_x, res)
        row == TruncDiv(xy[2] - g.utm_bounds.min_y, res)
    IN  <<ClampIndex(row, g.y_size), ClampIndex(col, g.x_size)>>

\* planar coordinates of the centre of cell (row, col): <<x, y>>
CellCentre(g, res, row, col) ==
    <<g.utm_bounds.min_x + col * res + res \div 2,
      g.utm_bounds.min_y + row * res + res \div 2>>

\* grid_to_latlon(row, col): <<lat, lon>>
GridToLatLon(g, res, cv, row, col) ==
    LET c  == CellCentre(g, res, row, col)
        ll == ToWgs84(c[1], c[2], cv)
    IN  <<ll[2], ll[1]>>

\* the simulator's own grid record
SelfGrid == [x_size |-> x_size, y_size |-> y_size, utm_bounds |-> utm_bounds]

latlon_to_grid(lat, lon) ==
    LatLonToGrid(SelfGrid, resolution_meters, convergence, lat, lon)

grid_to_latlon(row, col) ==
    GridToLatLon(SelfGrid, resolution_meters, convergence, row, col)

Cells == (0 .. y_size - 1) \X (0 .. x_size - 1)

----------------------------------------------------------------------------
(* Grid initialisation: init_grid, add_ignition_points                     *)

CellsOf(g) == (0 .. g.y_size - 1) \X (0 .. g.x_size - 1)

\* np.zeros((y_size, x_size)): the fire grid before seeding
ZeroGrid(g) == [c \in CellsOf(g) |-> 0]

\* np.ones((y_size, x_size)): the fuel grid the constructor builds
OnesGrid(g) == [c \in CellsOf(g) |-> 1]

\* moisture the constructor fills the moisture grid with: 0.1
DefaultMoisture == 100

\* the seeded value without the cap at full intensity
MutSeedValue(intensity) == intensity * 10

\* min(1.0, intensity / 100.0)
SeedValue(intensity) == Min(One, intensity * 10)

\* the loop of add_ignition_points over the points, in list order
RECURSIVE SeedGrid(_, _, _, _, _)
SeedGrid(g, res, cv, ips, grid) ==
    IF ips = <<>> THEN grid
    ELSE LET p  == Head(ips)
             rc == LatLonToGrid(g, res, cv, p.lat, p.lon)
         IN  SeedGrid(g, res, cv, Tail(ips),
                      [grid EXCEPT ![rc] = SeedValue(p.intensity)])

\* the earliest detection_time of the points (the start time of the run)
RECURSIVE EarliestTime(_)
EarliestTime(ips) ==
    IF Len(ips) = 1 THEN ips[1].detection_time
    ELSE Min(ips[1].detection_time, EarliestTime(Tail(ips)))

\* the cells the ignition points project to
IgnitionCells == {latlon_to_grid(ignition_points[i].lat, ignition_points[i].lon) :
                    i \in 1 .. Len(ignition_points)}

\* the fire grid as add_ignition_points leaves it
SeededGrid ==
    SeedGrid(SelfGrid, resolution_meters, convergence, ignition_points,
             ZeroGrid(SelfGrid))

----------------------------------------------------------------------------
(* Fuel parameters: setup_fuel_parameters                                  *)

\* surface area to volume ratio (1/m)
fuel_sav == 5000

\* fuel load (kg/m2): 1.0
fuel_load == 1

\* heat content (J/kg)
heat_content == 18000000

\* moisture of extinction: 0.3
moisture_extinction == 300

\* wind defaults of setup_wind_and_terrain when weather_data has no "current"
DefaultWindSpeed == 5

DefaultWindDirection == 0

wind_speed == IF weather_data.current THEN weather_data.wind_speed ELSE DefaultWindSpeed

wind_direction ==
    IF weather_data.current THEN weather_data.wind_direction ELSE DefaultWindDirection

----------------------------------------------------------------------------
(* Spread rate: calculate_spread_rate                                      *)

Directions == <<"N", "NE", "E", "SE", "S", "SW", "W", "NW">>

DirSet == {Directions[i] : i \in 1 .. Len(Directions)}

Azimuth(d) ==
    CASE d = "N" -> 0    [] d = "NE" -> 45  [] d = "E" -> 90   [] d = "SE" -> 135
      [] d = "S" -> 180  [] d = "SW" -> 225 [] d = "W" -> 270  [] d = "NW" -> 315

\* cos of a first-quadrant angle, a multiple of 15 degrees, in thousandths
QuarterCos(a) ==
    CASE a = 0 -> 1000 [] a = 15 -> 966 [] a = 30 -> 866 [] a = 45 -> 707
      [] a = 60 -> 500 [] a = 75 -> 259 [] a = 90 -> 0

\* np.cos(np.radians(deg)) in thousandths, deg a multiple of 15
CosMilli(deg) ==
    LET a == deg % 360
        b == IF a > 180 THEN 360 - a ELSE a
    IN  IF b > 90 THEN -QuarterCos(180 - b) ELSE QuarterCos(b)

\* 1 - 2.59 r + 5.11 r^2 with r = moisture / moisture_extinction, clamped to [0, 1]
MoistureDamping(moisture) ==
    LET r   == (moisture * 1000) \div moisture_extinction
        raw == 1000 - (2590 * r) \div 1000 + (5110 * ((r * r) \div 1000)) \div 1000
    IN  Max(0, Min(1000, raw))

\* reaction_intensity = fuel_load * heat_content * moisture_damping
ReactionIntensity(moisture) ==
    fuel_load * (heat_content \div 1000) * MoistureDamping(moisture)

\* base_spread = 0.048 * reaction_intensity / (fuel_load * fuel_sav), in cm/min
BaseSpread(moisture) ==
    (48 * ReactionIntensity(moisture)) \div (fuel_load * fuel_sav * 10)

\* wind_factor = 1.0 + 0.5 * wind_speed
WindFactor == 1000 + 500 * wind_speed

\* the wind effect without the conversion from "from" to "toward"
MutWindEffect(az) ==
    (WindFactor * Max(0, CosMilli(az - wind_direction))) \div 1000

\* wind_effect = wind_factor * max(0, cos(azimuth - wind_dir_math))
WindEffect(az) ==
    LET wind_dir_math == (wind_direction + 180) % 360
    IN  (WindFactor * Max(0, CosMilli(az - wind_dir_math))) \div 1000

\* slope_direction_effect: 1.0, or 1.0 + 0.5 * slope_factor * max(0, cos(azimuth - aspect))
SlopeDirectionEffect(az, slope, aspect) ==
    IF slope > 0
    THEN LET slope_factor == 1000 + 200 * slope
             slope_effect == (slope_factor * Max(0, CosMilli(az - aspect))) \div 1000
         IN  1000 + slope_effect \div 2
    ELSE 1000

MutDirectionFactor(az, slope, aspect) ==
    (WindEffect(az) * SlopeDirectionEffect(az, slope, aspect)) \div 1000

\* direction_factor = max(1.0, wind_effect * slope_direction_effect)
DirectionFactor(az, slope, aspect) ==
    Max(1000, (WindEffect(az) * SlopeDirectionEffect(az, slope, aspect)) \div 1000)

\* whether calculate_spread_rate returns (0.0, {}) for a cell
NoSpread(value, fuel, moisture) ==
    value <= 0 \/ fuel <= 0 \/ moisture >= moisture_extinction

\* spread_directions: the rate (cm/min) per direction; the empty dict is the
\* function with the empty domain
SpreadDirections(value, fuel, moisture, slope, aspect) ==
    IF NoSpread(value, fuel, moisture) THEN [d \in {} |-> 0]
    ELSE [d \in DirSet |->
            (BaseSpread(moisture) * DirectionFactor(Azimuth(d), slope, aspect)) \div 1000]

\* max_spread: max(spread_directions.values()), 0.0 for the empty dict
MaxSpread(dirs) ==
    IF DOMAIN dirs = {} THEN 0
    ELSE SeqMax([i \in 1 .. Len(Directions) |-> dirs[Directions[i]]])

\* calculate_spread_rate(row, col) on fire grid fg and terrain sl, asp
calculate_spread_rate(fg, sl, asp, cell) ==
    LET dirs == SpreadDirections(fg[cell], fuel_grid[cell], moisture_grid[cell],
                                 sl[cell], asp[cell])
    IN  [spread_rate |-> MaxSpread(dirs), spread_directions |-> dirs]

----------------------------------------------------------------------------
(* One time step: step                                                     *)

\* intensity a burning cell gains per step: 0.1
IntensityIncrement == 100

\* a cell whose raised intensity reaches 0.95 is burned out
BurnOutThreshold == 950

\* the intensity a newly ignited neighbour gets is capped at 0.5
MaxNewIntensity == 500

\* d_row of a direction: -1 if 'N' in direction, 1 if 'S' in direction
d_row(d) == IF d \in {"S", "SE", "SW"} THEN 1
            ELSE IF d \in {"N", "NE", "NW"} THEN -1 ELSE 0

\* d_col of a direction: 1 if 'E' in direction, -1 if 'W' in direction
d_col(d) == IF d \in {"W", "NW", "SW"} THEN -1
            ELSE IF d \in {"E", "NE", "SE"} THEN 1 ELSE 0

Neighbour(cell, d) == <<cell[1] + d_row(d), cell[2] + d_col(d)>>

\* the test without its "< 0" halves
MutOutOfBounds(n) == n[1] >= y_size \/ n[2] >= x_size

\* n_row < 0 or n_row >= y_size or n_col < 0 or n_col >= x_size
OutOfBounds(n) == n[1] < 0 \/ n[1] >= y_size \/ n[2] < 0 \/ n[2] >= x_size

\* math.sqrt(d_row**2 + d_col**2) in thousandths: 1 or sqrt(2)
OffsetDistance(d) == IF d_row(d) # 0 /\ d_col(d) # 0 THEN 1414 ELSE 1000

\* the test on the distance of one minute instead of one time step
MutSpreadCertain(dir_rate, d) ==
    dir_rate * 10 >= OffsetDistance(d) * resolution_meters

\* spread_prob = min(1.0, dir_spread_distance / offset distance) is 1.0:
\* dir_spread_rate * time_step_minutes / resolution_meters >= offset distance
\* (dir_rate in cm/min); np.random.random() < 1.0 always holds
SpreadCertain(dir_rate, d) ==
    dir_rate * time_step_minutes * 10 >= OffsetDistance(d) * resolution_meters

\* the selection without its "< 1" half
MutBurningSet(fg) == {c \in DOMAIN fg : fg[c] > 0}

\* np.where((fire_grid > 0) & (fire_grid < 1)) as a set
BurningSet(fg) == {c \in DOMAIN fg : fg[c] > 0 /\ fg[c] < One}

\* the cells of a set in row-major order, the order of np.where
RECURSIVE RowMajor(_)
RowMajor(S) ==
    IF S = {} THEN <<>>
    ELSE LET first == CHOOSE c \in S :
                        \A o \in S : c[1] < o[1] \/ (c[1] = o[1] /\ c[2] <= o[2])
         IN  <<first>> \o RowMajor(S \ {first})

burning_indices(fg) == RowMajor(BurningSet(fg))

MutSkipNeighbour(fg, n) == OutOfBounds(n) \/ fg[n] < 0

\* the element that grid[n_row, n_col] addresses in a numpy array of shape
\* (y_size, x_size): a negative index counts from the end of its axis
ArrayIndex(n) ==
    <<IF n[1] < 0 THEN n[1] + y_size ELSE n[1],
      IF n[2] < 0 THEN n[2] + x_size ELSE n[2]>>

\* the three "continue" tests on a neighbour: out of bounds, already burned
\* out in the current grid, no fuel
SkipNeighbour(fg, n) ==
    OutOfBounds(n) \/ fg[ArrayIndex(n)] < 0 \/ fuel_grid[ArrayIndex(n)] <= 0

\* the draws of one step whose outcome is open (0 < spread_prob < 1): pairs
\* <<burning cell, direction>> that reach the np.random.random() test
UncertainDraws(fg, sl, asp) ==
    {p \in BurningSet(fg) \X DirSet :
        LET r == calculate_spread_rate(fg, sl, asp, p[1])
        IN  /\ r.spread_rate > 0
            /\ r.spread_directions[p[2]] > 0
            /\ ~SkipNeighbour(fg, Neighbour(p[1], p[2]))
            /\ ~SpreadCertain(r.spread_directions[p[2]], p[2])}

\* the raise by half the increment
MutHalfRaise(v) ==
    LET raised == Min(One, v + IntensityIncrement \div 2)
    IN  IF raised >= BurnOutThreshold THEN BurnedOut ELSE raised

\* a cell that reaches the threshold is reset to 0 instead of set to -1
MutResetIntensity(v) ==
    LET raised == Min(One, v + IntensityIncrement)
    IN  IF raised >= BurnOutThreshold THEN 0 ELSE raised

MutRaiseIntensity(v) == Min(One, v + IntensityIncrement)

\* new_grid[row, col] = min(1.0, new_grid[row, col] + 0.1), then -1 when >= 0.95
RaiseIntensity(v) ==
    LET raised == Min(One, v + IntensityIncrement)
    IN  IF raised >= BurnOutThreshold THEN BurnedOut ELSE raised

\* new_intensity = min(0.5, fire_grid[row, col] * dir_spread_rate / spread_rate)
\* for a burning cell (v > 0) and a positive rate: the quotient of positive
\* floats is positive, so it is at least the smallest intensity told apart
\* here, one thousandth
NewIntensity(v, dir_rate, spread_rate) ==
    Min(MaxNewIntensity, Max(1, (v * dir_rate) \div spread_rate))

\* the test without "new_grid[n_row, n_col] >= 0"
MutMayOverwrite(staged, new_intensity) == new_intensity > staged

\* new_grid[n_row, n_col] >= 0 and new_intensity > new_grid[n_row, n_col]
MayOverwrite(staged, new_intensity) == staged >= 0 /\ new_intensity > staged

MutSpreadTo(fg, st, cell, d, r, lucky) ==
    LET dir_rate == r.spread_directions[d]
        n        == Neighbour(cell, d)
    IN  IF dir_rate <= 0 THEN st
        ELSE IF OutOfBounds(n) \/ fuel_grid[n] <= 0 THEN st
        ELSE IF ~(SpreadCertain(dir_rate, d) \/ <<cell, d>> \in lucky) THEN st
        ELSE LET ni == NewIntensity(fg[cell], dir_rate, r.spread_rate)
             IN  IF ni > st.grid[n]
                 THEN [grid |-> [st.grid EXCEPT ![n] = ni], still_burning |-> TRUE]
                 ELSE st

\* the body of the loop over spread_directions for one direction d of one
\* burning cell; st is [grid |-> new_grid, still_burning |-> flag]; lucky is
\* the set of open draws that came out below spread_prob
SpreadTo(fg, st, cell, d, r, lucky) ==
    LET dir_rate == r.spread_directions[d]
        n        == Neighbour(cell, d)
    IN  IF dir_rate <= 0 THEN st
        ELSE IF SkipNeighbour(fg, n) THEN st
        ELSE IF ~(SpreadCertain(dir_rate, d) \/ <<cell, d>> \in lucky) THEN st
        ELSE LET ni == NewIntensity(fg[cell], dir_rate, r.spread_rate)
             IN  IF MayOverwrite(st.grid[ArrayIndex(n)], ni)
                 THEN [grid |-> [st.grid EXCEPT ![ArrayIndex(n)] = ni],
                       still_burning |-> TRUE]
                 ELSE st

RECURSIVE SpreadAll(_, _, _, _, _, _)
SpreadAll(fg, st, cell, ds, r, lucky) ==
    IF ds = <<>> THEN st
    ELSE LET nxt == SpreadTo(fg, st, cell, Head(ds), r, lucky)
         IN  IF nxt.still_burning \in BOOLEAN  \* always: nxt is computed before the next turn
             THEN SpreadAll(fg, nxt, cell, Tail(ds), r, lucky)
             ELSE st

\* the body of the loop over burning_indices for one cell
ProcessCell(fg, sl, asp, st, cell, lucky) ==
    LET r == calculate_spread_rate(fg, sl, asp, cell)
    IN  IF r.spread_rate <= 0 THEN st
        ELSE SpreadAll(fg,
                       [grid |-> [st.grid EXCEPT ![cell] = RaiseIntensity(st.grid[cell])],
                        still_burning |-> TRUE],
                       cell, Directions, r, lucky)

RECURSIVE ProcessCells(_, _, _, _, _, _)
ProcessCells(fg, sl, asp, st, order, lucky) ==
    IF order = <<>> THEN st
    ELSE LET nxt == ProcessCell(fg, sl, asp, st, Head(order), lucky)
         IN  IF nxt.still_burning \in BOOLEAN  \* always: nxt is computed before the next turn
             THEN ProcessCells(fg, sl, asp, nxt, Tail(order), lucky)
             ELSE st

\* the transition of step(): new_grid and still_burning from the current grid,
\* the burning cells processed in the given order
Transition(fg, sl, asp, order, lucky) ==
    ProcessCells(fg, sl, asp, [grid |-> fg, still_burning |-> FALSE], order, lucky)

\* the snapshot takes the place of the latest one
MutHistoryPut(h, key, grid) ==
    IF Len(h) = 0 THEN <<[key |-> key, grid |-> grid]>>
    ELSE [h EXCEPT ![Len(h)] = [key |-> key, grid |-> grid]]

\* self.history[key] = grid on an insertion-ordered dict
HistoryPut(h, key, grid) ==
    IF \E i \in 1 .. Len(h) : h[i].key = key
    THEN [i \in 1 .. Len(h) |-> IF h[i].key = key THEN [key |-> key, grid |-> grid] ELSE h[i]]
    ELSE Append(h, [key |-> key, grid |-> grid])

\* the end-time test left out
MutEndTimeReached(n) == FALSE

\* current_step * time_step_minutes >= simulation_hours * 60
EndTimeReached(n) == n * time_step_minutes >= simulation_hours * 60

\* the loop test that stops one step short of the cap
MutLoopGuardEarly(sb, sc) ==
    sb /\ (sc + 1) * time_step_minutes < simulation_hours * 60

MutLoopGuard(sb, sc) == sc * time_step_minutes < simulation_hours * 60

\* run_simulation's loop test: still_burning and
\* step_count < simulation_hours * 60 / time_step_minutes
LoopGuard(sb, sc) == sb /\ sc * time_step_minutes < simulation_hours * 60

----------------------------------------------------------------------------
(* Perimeters: extract_perimeters                                          *)

\* fire_cells: the (lat, lon) of every cell with grid > 0 or grid < 0, in the
\* row-major order of np.where
fire_cells(grid) ==
    LET rc == RowMajor({c \in DOMAIN grid : grid[c] > 0 \/ grid[c] < 0})
    IN  [i \in 1 .. Len(rc) |-> grid_to_latlon(rc[i][1], rc[i][2])]

SeqRange(s) == {s[i] : i \in 1 .. Len(s)}

\* twice the signed area of the triangle o, a, b
Cross(o, a, b) == (a[1] - o[1]) * (b[2] - o[2]) - (a[2] - o[2]) * (b[1] - o[1])

Dist2(a, b) == (a[1] - b[1]) * (a[1] - b[1]) + (a[2] - b[2]) * (a[2] - b[2])

\* ConvexHull(points) raises (QhullError): fewer than 3 distinct points, or
\* all of them on one line
HullFails(P) ==
    \/ Cardinality(P) < 3
    \/ \A a \in P, b \in P, c \in P : Cross(a, b, c) = 0

\* the hull vertex that follows cur counterclockwise: every other point is
\* to the left of cur -> q, or on it and not farther than q
NextVertex(P, cur) ==
    CHOOSE q \in P \ {cur} :
        \A r \in P \ {cur, q} :
            \/ Cross(cur, q, r) > 0
            \/ Cross(cur, q, r) = 0 /\ Dist2(cur, r) <= Dist2(cur, q)

RECURSIVE HullFrom(_, _, _)
HullFrom(P, start, cur) ==
    LET nxt == NextVertex(P, cur)
    IN  IF nxt = start THEN <<cur>> ELSE <<cur>> \o HullFrom(P, start, nxt)

\* hull.vertices as points, counterclockwise, from the least point
HullVertices(P) ==
    LET start == CHOOSE p \in P :
                    \A o \in P : p[1] < o[1] \/ (p[1] = o[1] /\ p[2] <= o[2])
    IN  HullFrom(P, start, start)

GeoPoint(lat, lon) == [latitude |-> lat, longitude |-> lon]

MutHullPerimeter(P) ==
    LET hv == HullVertices(P)
    IN  [i \in 1 .. Len(hv) |-> GeoPoint(hv[i][1], hv[i][2])]

\* the try branch: the hull vertices, then perimeter.append(perimeter[0])
HullPerimeter(P) ==
    LET hv        == HullVertices(P)
        perimeter == [i \in 1 .. Len(hv) |-> GeoPoint(hv[i][1], hv[i][2])]
    IN  Append(perimeter, perimeter[1])

SetMin(S) == CHOOSE m \in S : \A o \in S : m <= o

SetMax(S) == CHOOSE m \in S : \A o \in S : m >= o

\* the except branch: the bounding box of the fire cells, closed
BoxPerimeter(P) ==
    LET min_lat == SetMin({q[1] : q \in P})
        max_lat == SetMax({q[1] : q \in P})
        min_lon == SetMin({q[2] : q \in P})
        max_lon == SetMax({q[2] : q \in P})
    IN  <<GeoPoint(min_lat, min_lon), GeoPoint(min_lat, max_lon),
          GeoPoint(max_lat, max_lon), GeoPoint(max_lat, min_lon),
          GeoPoint(min_lat, min_lon)>>

\* extract_perimeters(grid): the list of polygons (none, or one)
extract_perimeters(grid) ==
    LET fc == fire_cells(grid)
        P  == SeqRange(fc)
    IN  IF Len(fc) = 0 THEN <<>>
        ELSE IF HullFails(P) THEN <<BoxPerimeter(P)>>
        ELSE <<HullPerimeter(P)>>

----------------------------------------------------------------------------
(* Results: generate_results                                               *)

\* "use approximately 10 time points": the history length above which the
\* history is subsampled, and the divisor of the stride
TargetTimePoints == 10

\* grids larger than this in either dimension are downsampled
MaxGridOutput == 100

\* every key, whatever the stride
MutStrided(n, step_size) == 1 .. n

\* keys[::step_size] as the indices into the history
Strided(n, step_size) == {i \in 1 .. n : (i - 1) % step_size = 0}

\* the subsample alone
MutTimePoints(h) ==
    LET n       == Len(h)
        chosen  == IF n > TargetTimePoints
                   THEN Strided(n, Max(1, n \div TargetTimePoints))
                   ELSE 1 .. n
        ordered == RowMajor({<<i, 0>> : i \in chosen})
    IN  [k \in 1 .. Len(ordered) |-> ordered[k][1]]

\* the indices of the time_points in the history, in time_points order: the
\* subsample, then the final one if it is not included
time_points(h) ==
    LET n       == Len(h)
        chosen  == IF n > TargetTimePoints
                   THEN Strided(n, Max(1, n \div TargetTimePoints))
                   ELSE 1 .. n
        ordered == RowMajor({<<i, 0>> : i \in chosen})
        idx     == [k \in 1 .. Len(ordered) |-> ordered[k][1]]
    IN  IF \E k \in 1 .. Len(idx) : h[idx[k]].key = h[n].key THEN idx
        ELSE Append(idx, n)

\* the grid reported as it is in the snapshot
MutVisGrid(grid) == grid

\* vis_grid: a copy of the grid with every negative value replaced by 1.0
vis_grid(grid) == [c \in DOMAIN grid |-> IF grid[c] < 0 THEN One ELSE grid[c]]

\* vis_grid[::factor, ::factor] when a dimension exceeds 100, else vis_grid
Downsample(vg) ==
    IF x_size > MaxGridOutput \/ y_size > MaxGridOutput
    THEN LET factor == Max(1, Max(x_size, y_size) \div MaxGridOutput)
         IN  [c \in {d \in DOMAIN vg : d[1] % factor = 0 /\ d[2] % factor = 0} |-> vg[c]]
    ELSE vg

\* np.sum(grid > 0)
CountBurning(grid) == Cardinality({c \in DOMAIN grid : grid[c] > 0})

\* the count without the burned-out cells
MutCountEverBurned(grid) == Cardinality({c \in DOMAIN grid : grid[c] > 0})

\* np.sum((grid > 0) | (grid < 0))
CountEverBurned(grid) == Cardinality({c \in DOMAIN grid : grid[c] > 0 \/ grid[c] < 0})

\* generate_results(): perimeters and intensity_grid are dicts keyed by the
\* time point, kept as sequences of [key, value] in insertion order;
\* area_burned is in square metres (the program's sq km times 10^6)
generate_results(h) ==
    LET tp == time_points(h)
        n  == Len(h)
    IN  [perimeters |->
            [k \in 1 .. Len(tp) |->
                [key |-> h[tp[k]].key, value |-> extract_perimeters(h[tp[k]].grid)]],
         intensity_grid |->
            [k \in 1 .. Len(tp) |->
                [key |-> h[tp[k]].key, value |-> Downsample(vis_grid(h[tp[k]].grid))]],
         metadata |->
            [simulation_start_time |-> h[1].key,
             simulation_end_time   |-> h[n].key,
             initial_burning_cells |-> CountBurning(h[1].grid),
             total_burned_cells    |-> CountEverBurned(h[n].grid),
             area_burned           |-> CountEverBurned(h[n].grid)
                                         * resolution_meters * resolution_meters,
             time_steps_simulated  |-> n]]

----------------------------------------------------------------------------
(* step() and run_simulation() on one simulator instance                   *)

\* datetime.isoformat() of a time given in minutes: <<day, hour, minute>>
isoformat(t) == <<t \div 1440, (t % 1440) \div 60, t % 60>>

\* the fields of an instance that step() and run_simulation() read and write
SelfSim ==
    [fire_grid |-> fire_grid, slope_grid |-> slope_grid, aspect_grid |-> aspect_grid,
     history |-> history, current_step |-> current_step, current_time |-> current_time,
     step_count |-> step_count, still_burning |-> still_burning]

\* the draws of the next step of an instance whose outcome is open
OpenDraws(sim) == UncertainDraws(sim.fire_grid, sim.slope_grid, sim.aspect_grid)

\* step() called from run_simulation's loop: the instance after
\* "still_burning = self.step(); step_count += 1"
step(sim, lucky) ==
    LET t    == sim.current_time + time_step_minutes
        n    == sim.current_step + 1
        h    == HistoryPut(sim.history, isoformat(t), sim.fire_grid)
        base == [sim EXCEPT !.current_time = t, !.current_step = n, !.history = h,
                            !.step_count = sim.step_count + 1]
    IN  IF EndTimeReached(n)
        THEN [base EXCEPT !.still_burning = FALSE]
        ELSE LET r == Transition(sim.fire_grid, sim.slope_grid, sim.aspect_grid,
                                 burning_indices(sim.fire_grid), lucky)
             IN  [base EXCEPT !.fire_grid = r.grid, !.still_burning = r.still_burning]

\* the main instance takes the fields of sim
Becomes(sim) ==
    /\ fire_grid' = sim.fire_grid
    /\ history' = sim.history
    /\ current_step' = sim.current_step
    /\ current_time' = sim.current_time
    /\ step_count' = sim.step_count
    /\ still_burning' = sim.still_burning

\* a step of the loop that performs the transition
StepTransition ==
    /\ pc = "run"
    /\ LoopGuard(still_burning, step_count)
    /\ ~EndTimeReached(current_step + 1)
    /\ \E lucky \in SUBSET OpenDraws(SelfSim) : Becomes(step(SelfSim, lucky))
    /\ UNCHANGED <<configVars, terrainVars, pc, results, twin, probe>>

\* a step of the loop that finds the simulation end time reached
StepEndTime ==
    /\ pc = "run"
    /\ LoopGuard(still_burning, step_count)
    /\ EndTimeReached(current_step + 1)
    /\ Becomes(step(SelfSim, {}))
    /\ UNCHANGED <<configVars, terrainVars, pc, results, twin, probe>>

\* the replacement of the burned-out values made in the snapshots themselves
MutHistoryAfterResults(h) ==
    [k \in 1 .. Len(h) |-> [h[k] EXCEPT !.grid = vis_grid(h[k].grid)]]

\* the history after generate_results: "vis_grid = grid.copy()" takes a copy
\* of each reported snapshot, and nothing else is assigned to
HistoryAfterResults(h) == h

\* the loop is left and run_simulation returns generate_results()
GenerateResults ==
    /\ pc = "run"
    /\ ~LoopGuard(still_burning, step_count)
    /\ results' = generate_results(history)
    /\ history' = HistoryAfterResults(history)
    /\ pc' = "done"
    /\ UNCHANGED <<configVars, terrainVars, fire_grid, current_step,
                   current_time, step_count, still_burning, twin, probe>>

----------------------------------------------------------------------------
(* Construction: __init__                                                  *)

\* the terrain np.random draws in setup_wind_and_terrain: slope (degrees) and
\* aspect (degrees from north) per cell.  "flat" is the terrain a test forces.
TerrainNames == {"flat", "north_face", "southwest_face", "ridge"}

Terrain(name, g) ==
    CASE name = "flat" ->
            [slope |-> [c \in CellsOf(g) |-> 0], aspect |-> [c \in CellsOf(g) |-> 0]]
      [] name = "north_face" ->
            [slope |-> [c \in CellsOf(g) |-> 10], aspect |-> [c \in CellsOf(g) |-> 0]]
      [] name = "southwest_face" ->
            [slope |-> [c \in CellsOf(g) |-> 3], aspect |-> [c \in CellsOf(g) |-> 225]]
      [] name = "ridge" ->
            [slope |-> [c \in CellsOf(g) |-> IF c[2] = 0 THEN 20 ELSE 5],
             aspect |-> [c \in CellsOf(g) |-> IF c[2] = 0 THEN 270 ELSE 90]]

\* grids as the constructor builds them ("none") or as a caller overwrites
\* them afterwards: no fuel outside the ignition cells, no fuel in the last
\* column, moisture at the moisture of extinction
OverrideNames == {"none", "fuel_only_at_ignition", "bare_last_column", "wet"}

FuelGrid(name, g, ign) ==
    CASE name = "fuel_only_at_ignition" ->
            [c \in CellsOf(g) |-> IF c \in ign THEN 1 ELSE 0]
      [] name = "bare_last_column" ->
            [c \in CellsOf(g) |-> IF c[2] = g.x_size - 1 THEN 0 ELSE 1]
      [] OTHER -> OnesGrid(g)

MoistureGrid(name, g) ==
    [c \in CellsOf(g) |-> IF name = "wet" THEN moisture_extinction ELSE DefaultMoisture]

\* the state after FireSpreadSimulator(...) with arguments sc, the terrain
\* drawn as sc.terrain, and the grids overwritten as sc.override
Construct(sc) ==
    LET g   == grid_setup(sc.bounds, sc.res, sc.cv)
        ign == {LatLonToGrid(g, sc.res, sc.cv, sc.ips[i].lat, sc.ips[i].lon) :
                  i \in 1 .. Len(sc.ips)}
        ter == Terrain(sc.terrain, g)
    IN  /\ ignition_points = sc.ips
        /\ bounds = sc.bounds
        /\ resolution_meters = sc.res
        /\ simulation_hours = sc.hours
        /\ time_step_minutes = sc.dt
        /\ weather_data = sc.weather
        /\ convergence = sc.cv
        /\ x_size = g.x_size
        /\ y_size = g.y_size
        /\ utm_bounds = g.utm_bounds
        /\ fire_grid = SeedGrid(g, sc.res, sc.cv, sc.ips, ZeroGrid(g))
        /\ fuel_grid = FuelGrid(sc.override, g, ign)
        /\ moisture_grid = MoistureGrid(sc.override, g)
        /\ slope_grid = ter.slope
        /\ aspect_grid = ter.aspect
        /\ history = <<>>
        /\ current_step = 0
        /\ current_time = EarliestTime(sc.ips)
        /\ step_count = 0
        /\ still_burning = TRUE
        /\ pc = "run"
        /\ results = [perimeters |-> <<>>, intensity_grid |-> <<>>,
                      metadata |-> [time_steps_simulated |-> 0]]

----------------------------------------------------------------------------
(* The runs explored                                                       *)

\* the longest simulation explored, in hours
MaxHours == 6

IgnitionPoint(lat, lon, intensity, t) ==
    [lat |-> lat, lon |-> lon, intensity |-> intensity, detection_time |-> t]

\* a 1000 m x 1100 m area: 3 x 3 cells at 500 m
WideBounds == [min_lat |-> 0, min_lon |-> 0, max_lat |-> 20, max_lon |-> 1100]

\* a 600 m x 700 m area: 2 x 2 cells at 500 m
SmallBounds == [min_lat |-> 0, min_lon |-> 0, max_lat |-> 12, max_lon |-> 700]

\* ignition intensities (percent): none, weak, medium, strong, full, above full
Intensities == {0, 20, 50, 90, 100, 150}

\* locations in and around WideBounds: the centre cell, the south-west
\* corner cell, the west edge, and a point outside the bounds
Locations == {<<15, 780>>, <<2, 100>>, <<15, 100>>, <<30, 2000>>}

SinglePoints ==
    {<<IgnitionPoint(l[1], l[2], i, 0)>> : l \in Locations, i \in Intensities}

\* two points: on the same cell (the later one wins), and on two cells with
\* different detection times
PointPairs ==
    {<<IgnitionPoint(15, 780, 50, 60), IgnitionPoint(15, 790, 90, 0)>>,
     <<IgnitionPoint(15, 780, 50, 30), IgnitionPoint(30, 2000, 20, 45)>>,
     <<IgnitionPoint(15, 780, 150, 0), IgnitionPoint(15, 100, 20, 0)>>,
     <<IgnitionPoint(15, 1010, 150, 0), IgnitionPoint(15, 1020, 50, 0)>>}

Weather(speed, direction) ==
    [current |-> TRUE, wind_speed |-> speed, wind_direction |-> direction]

\* calm; 10 m/s blowing toward east, toward north, toward south-west; and no
\* weather data (the defaults: 5 m/s from north)
Weathers ==
    {Weather(0, 0), Weather(10, 270), Weather(10, 180), Weather(4, 45),
     [current |-> FALSE, wind_speed |-> 0, wind_direction |-> 0]}

\* 30-minute steps at 500 m (every spread_prob is 1): every ignition list
SeedingScenarios ==
    [ips : SinglePoints \cup PointPairs, bounds : {WideBounds}, res : {500},
     hours : {MaxHours}, dt : {30}, weather : {Weather(0, 0), Weather(10, 270)},
     cv : {0}, override : {"none", "fuel_only_at_ignition", "bare_last_column"},
     terrain : {"flat", "ridge"}]

\* 30-minute steps at 500 m: every weather, terrain and overwritten grid
TerrainScenarios ==
    [ips : {<<IgnitionPoint(15, 780, 50, 0)>>, <<IgnitionPoint(2, 100, 90, 0)>>},
     bounds : {WideBounds}, res : {500}, hours : {1, MaxHours}, dt : {30},
     weather : Weathers, cv : {0, 1}, override : OverrideNames, terrain : TerrainNames]

\* 45-minute steps: the step cap 60 / 45 is not whole
UnevenScenarios ==
    [ips : {<<IgnitionPoint(15, 780, 50, 0)>>}, bounds : {WideBounds}, res : {500},
     hours : {1, 2}, dt : {45}, weather : {Weather(10, 270)}, cv : {0},
     override : {"none"}, terrain : {"flat", "ridge"}]

\* 5-minute steps at 500 m: spread_prob is below 1 toward diagonal neighbours
GustyScenarios ==
    [ips : {<<IgnitionPoint(2, 100, i, 0)>> : i \in {50, 90}}, bounds : {SmallBounds},
     res : {500}, hours : {1}, dt : {5}, weather : {Weather(0, 0), Weather(4, 45)},
     cv : {0}, override : {"none", "bare_last_column"}, terrain : {"flat", "north_face"}]

\* a 50 m x 20 km strip: 1 x 201 cells at 100 m, downsampled in the results
LongStrip == [min_lat |-> 0, min_lon |-> 0, max_lat |-> 1, max_lon |-> 20000]

LongStripScenarios ==
    [ips : {<<IgnitionPoint(0, 50, i, 0)>> : i \in {50, 90}}, bounds : {LongStrip},
     res : {100}, hours : {1, 2}, dt : {30}, weather : {Weather(10, 270)}, cv : {0},
     override : {"none"}, terrain : {"flat"}]

\* a 2000 m x 2100 m area: 3 x 3 cells at the coarse resolution of 1000 m
CoarseBounds == [min_lat |-> 0, min_lon |-> 0, max_lat |-> 40, max_lon |-> 2100]

CoarseScenarios ==
    [ips : {<<IgnitionPoint(30, 1500, 50, 0)>>}, bounds : {CoarseBounds},
     res : {1000}, hours : {2}, dt : {30},
     weather : {Weather(0, 0), Weather(10, 180)}, cv : {0},
     override : {"none", "bare_last_column"}, terrain : {"flat", "ridge"}]

Scenarios ==
    SeedingScenarios \cup TerrainScenarios \cup UnevenScenarios \cup GustyScenarios
      \cup LongStripScenarios \cup CoarseScenarios

IdleTwin == [active |-> FALSE]

IdleProbe == [op |-> "none"]

Init ==
    /\ \E sc \in Scenarios : Construct(sc)
    /\ twin = IdleTwin
    /\ probe = IdleProbe

Next == StepTransition \/ StepEndTime \/ GenerateResults

Spec == Init /\ [][Next]_vars

----------------------------------------------------------------------------
(* Two simulators built from the same arguments, run one after the other   *)

\* the second instance after FireSpreadSimulator(...) with the arguments of
\* the first; np.random draws its terrain anew
TwinConstruct(sc, terrain) ==
    LET g   == grid_setup(sc.bounds, sc.res, sc.cv)
        ter == Terrain(terrain, g)
    IN  twin = [active |-> TRUE,
                fire_grid |-> SeedGrid(g, sc.res, sc.cv, sc.ips, ZeroGrid(g)),
                slope_grid |-> ter.slope, aspect_grid |-> ter.aspect,
                history |-> <<>>, current_step |-> 0,
                current_time |-> EarliestTime(sc.ips),
                step_count |-> 0, still_burning |-> TRUE, pc |-> "run"]

\* one turn of the second instance's run_simulation loop
TwinStep ==
    /\ pc = "done"
    /\ twin.active
    /\ twin.pc = "run"
    /\ LoopGuard(twin.still_burning, twin.step_count)
    /\ \E lucky \in SUBSET OpenDraws(twin) : twin' = step(twin, lucky)
    /\ UNCHANGED <<configVars, terrainVars, runVars, probe>>

\* the second instance leaves the loop
TwinFinish ==
    /\ pc = "done"
    /\ twin.active
    /\ twin.pc = "run"
    /\ ~LoopGuard(twin.still_burning, twin.step_count)
    /\ twin' = [twin EXCEPT !.pc = "done"]
    /\ UNCHANGED <<configVars, terrainVars, runVars, probe>>

TwinScenarios ==
    GustyScenarios \cup
    [ips : {<<IgnitionPoint(15, 780, i, 0)>> : i \in {20, 50}}, bounds : {WideBounds},
     res : {500}, hours : {1, MaxHours}, dt : {30},
     weather : {Weather(0, 0), Weather(10, 270)}, cv : {0}, override : {"none"},
     terrain : TerrainNames \ {"flat"}]

TwinInit ==
    /\ \E sc \in TwinScenarios :
          /\ Construct(sc)
          /\ \E t \in TerrainNames \ {"flat"} : TwinConstruct(sc, t)
    /\ probe = IdleProbe

TwinNext == Next \/ TwinStep \/ TwinFinish

SpecTwin == TwinInit /\ [][TwinNext]_vars

----------------------------------------------------------------------------
(* Calls of the coordinate transforms on a constructed simulator           *)

\* a 2000 m x 2000 m area
ProbeBounds == [min_lat |-> 0, min_lon |-> 0, max_lat |-> 40, max_lon |-> 2000]

\* a 1500 m x 2350 m area: the spans are not multiples of the resolutions
OddBounds == [min_lat |-> 4, min_lon |-> 50, max_lat |-> 34, max_lon |-> 2400]

\* how far outside the bounds the probed points go, in latitude units and in
\* tens of metres of longitude
ProbeMargin == 8

ProbeLats(b) ==
    {b.min_lat - ProbeMargin, b.min_lat, b.min_lat + 1, b.min_lat + 7,
     (b.min_lat + b.max_lat) \div 2, b.max_lat - 3, b.max_lat - 1, b.max_lat,
     b.max_lat + ProbeMargin}

ProbeLons(b) ==
    {b.min_lon - 10 * ProbeMargin, b.min_lon, b.min_lon + 30, b.min_lon + 420,
     (b.min_lon + b.max_lon) \div 2, b.max_lon - 130, b.max_lon - 10, b.max_lon,
     b.max_lon + 10 * ProbeMargin}

\* simulators to probe: one ignition point inside, one outside the bounds
ProjectionScenarios ==
    [ips : {<<IgnitionPoint(10, 300, 50, 0), IgnitionPoint(200, 9000, 50, 0)>>},
     bounds : {ProbeBounds, OddBounds}, res : {100, 500}, hours : {1}, dt : {30},
     weather : {Weather(0, 0)}, cv : {0, 1, 2}, override : {"none"}, terrain : {"flat"}]

ProjectionInit ==
    /\ \E sc \in ProjectionScenarios : Construct(sc)
    /\ twin = IdleTwin
    /\ probe = IdleProbe

\* latlon_to_grid(lat, lon), then grid_to_latlon of what it returned
ProbeRoundTrip ==
    /\ \E lat \in ProbeLats(bounds), lon \in ProbeLons(bounds) :
          LET cell == latlon_to_grid(lat, lon)
          IN  probe' = [op |-> "round_trip", lat |-> lat, lon |-> lon, cell |-> cell,
                        back |-> grid_to_latlon(cell[1], cell[2])]
    /\ UNCHANGED <<configVars, terrainVars, runVars, twin>>

ProjectionNext == ProbeRoundTrip

SpecProjection == ProjectionInit /\ [][ProjectionNext]_vars

----------------------------------------------------------------------------
(* Calls of calculate_spread_rate on a constructed simulator               *)

\* wind directions probed: every multiple of 15 degrees
WindDirections == {15 * k : k \in 0 .. 23}

RateScenarios ==
    [ips : {<<IgnitionPoint(15, 780, 50, 0), IgnitionPoint(2, 100, 150, 0)>>},
     bounds : {WideBounds}, res : {500}, hours : {1}, dt : {30},
     weather : {Weather(v, w) : v \in {0, 5}, w \in WindDirections}, cv : {0},
     override : {"none", "wet", "bare_last_column"}, terrain : {"flat", "ridge"}]

RateInit ==
    /\ \E sc \in RateScenarios : Construct(sc)
    /\ twin = IdleTwin
    /\ probe = IdleProbe

\* calculate_spread_rate(row, col)
ProbeSpreadRate ==
    /\ \E cell \in Cells :
          LET r == calculate_spread_rate(fire_grid, slope_grid, aspect_grid, cell)
          IN  probe' = [op |-> "calculate_spread_rate", cell |-> cell,
                        spread_rate |-> r.spread_rate,
                        spread_directions |-> r.spread_directions]
    /\ UNCHANGED <<configVars, terrainVars, runVars, twin>>

RateNext == ProbeSpreadRate

SpecRate == RateInit /\ [][RateNext]_vars

----------------------------------------------------------------------------
(* Scenario A: one ignition point at the grid centre, fuel 1 and moisture  *)
(* 0.1 everywhere, wind 10 m/s from the west, 24 h, 500 m cells, 30-minute *)
(* steps                                                                   *)

\* a 1000 m x 2100 m area: 3 x 5 cells at 500 m
FiveColumns == [min_lat |-> 0, min_lon |-> 0, max_lat |-> 20, max_lon |-> 2100]

\* a 250 m x 40 km strip: 1 x 81 cells at 500 m, too long to burn in 24 h
Strip == [min_lat |-> 0, min_lon |-> 0, max_lat |-> 5, max_lon |-> 40000]

\* wind blowing toward the east: meteorological direction 270 (from the west)
WestWind == Weather(10, 270)

\* seeded intensities in percent: none, faint, moderate, strong, full
CentreIntensities == {0, 3, 20, 50, 90, 100}

ScenarioA(b, lat, lon, intensity, terrain) ==
    [ips |-> <<IgnitionPoint(lat, lon, intensity, 0)>>, bounds |-> b, res |-> 500,
     hours |-> 24, dt |-> 30, weather |-> WestWind, cv |-> 0, override |-> "none",
     terrain |-> terrain]

ScenariosA ==
    {ScenarioA(WideBounds, 15, 780, i, t) : i \in CentreIntensities, t \in TerrainNames}
      \cup {ScenarioA(FiveColumns, 15, 1250, i, t) :
              i \in CentreIntensities, t \in TerrainNames}
      \cup {ScenarioA(Strip, 2, 20250, 50, "flat")}

InitA ==
    /\ \E sc \in ScenariosA : Construct(sc)
    /\ twin = IdleTwin
    /\ probe = IdleProbe

SpecA == InitA /\ [][Next]_vars

----------------------------------------------------------------------------
(* handler(): a request served by one simulator; an exception raised in a  *)
(* step leaves run_simulation (which catches nothing) and is caught by the *)
(* handler's "except Exception"                                            *)

\* where a step can raise: before it has changed anything, or after it
\* has advanced the time and recorded the snapshot (the new grid is only
\* assigned by the last statement of a step that completes)
RaisePoints == {"on_entry", "after_snapshot"}

\* the fields of the instance when a step raises at the given point
Raised(sim, point) ==
    IF point = "on_entry" THEN sim
    ELSE LET t == sim.current_time + time_step_minutes
         IN  [sim EXCEPT !.current_time = t,
                         !.current_step = sim.current_step + 1,
                         !.history = HistoryPut(sim.history, isoformat(t), sim.fire_grid)]

\* a response that passes the results on as a success
MutErrorResponse == [op |-> "handler", statusCode |-> 200, body |-> results]

\* the handler's except branch: statusCode 500 and a body holding the error
ErrorResponse == [op |-> "handler", statusCode |-> 500, body |-> [error |-> "exception"]]

\* the handler's return after run_simulation: statusCode 200 and the results
SuccessResponse == [op |-> "handler", statusCode |-> 200, body |-> results]

\* self.step() raises inside run_simulation's loop
StepRaises ==
    /\ pc = "run"
    /\ LoopGuard(still_burning, step_count)
    /\ \E point \in RaisePoints : Becomes(Raised(SelfSim, point))
    /\ pc' = "raised"
    /\ UNCHANGED <<configVars, terrainVars, results, twin, probe>>

\* the exception reaches the handler
HandlerExcept ==
    /\ pc = "raised"
    /\ probe' = ErrorResponse
    /\ pc' = "failed"
    /\ UNCHANGED <<configVars, terrainVars, fire_grid, history, current_step,
                   current_time, step_count, still_burning, results, twin>>

\* run_simulation has returned and the handler answers with the results
HandlerReturn ==
    /\ pc = "done"
    /\ probe' = SuccessResponse
    /\ pc' = "returned"
    /\ UNCHANGED <<configVars, terrainVars, fire_grid, history, current_step,
                   current_time, step_count, still_burning, results, twin>>

\* requests: the handler always runs 30-minute steps
HandlerScenarios ==
    [ips : {<<IgnitionPoint(15, 780, i, 0)>> : i \in {20, 90}}, bounds : {WideBounds},
     res : {500}, hours : {1, MaxHours}, dt : {30},
     weather : {Weather(0, 0), Weather(10, 270)}, cv : {0}, override : {"none"},
     terrain : {"flat", "ridge"}]

HandlerInit ==
    /\ \E sc \in HandlerScenarios : Construct(sc)
    /\ twin = IdleTwin
    /\ probe = IdleProbe

HandlerNext == Next \/ StepRaises \/ HandlerExcept \/ HandlerReturn

SpecHandler == HandlerInit /\ [][HandlerNext]_vars

----------------------------------------------------------------------------
(* Properties                                                              *)

BurnedOutCells(grid) == {c \in DOMAIN grid : grid[c] = BurnedOut}

\* the grid of the run before its k-th step (the k-th snapshot)
Snapshot(k) == history[k].grid

\* the neighbours of a cell inside the grid
NeighboursOf(c) == {Neighbour(c, d) : d \in DirSet} \cap Cells

\* the k-th step was a transition step from whose grid cell s was spreading
SpreadingAt(k, s) ==
    /\ k \in 1 .. Len(history)
    /\ ~EndTimeReached(k)
    /\ Snapshot(k)[s] > 0 /\ Snapshot(k)[s] < One
    /\ fuel_grid[s] > 0 /\ moisture_grid[s] < moisture_extinction

\* C1: once a cell of the fire grid equals -1 (burned out), it equals -1
\* after every later step.
C1_BurnedOutIsTerminal ==
    [][\A c \in Cells : fire_grid[c] = BurnedOut => fire_grid'[c] = BurnedOut]_vars

\* a step was taken from a grid in which a burned out cell had a spreading
\* neighbour, and the cell is burned out after it
C1_Witness ==
    \E k \in 1 .. Len(history) : \E c \in Cells : \E s \in NeighboursOf(c) :
        /\ k < Len(history)
        /\ Snapshot(k)[c] = BurnedOut
        /\ SpreadingAt(k, s)
        /\ fire_grid[c] = BurnedOut

\* ceil(simulation_hours * 60 / time_step_minutes)
StepCap == CeilDiv(simulation_hours * 60, time_step_minutes)

\* C2: run_simulation makes at most ceil(simulationHours*60/timeStepMinutes)
\* calls of step(); it makes no call after a step returned false, and it
\* leaves the loop only after a step returned false or at the step cap.
C2_BoundedTermination ==
    /\ [](/\ step_count <= StepCap
          /\ step_count = current_step
          /\ pc = "done" => (~still_burning \/ step_count = StepCap))
    /\ [][(step_count > 0 /\ ~still_burning) => step_count' = step_count]_vars

\* a run that ended at a step cap that is not a whole quotient, and before
\* it the fire was still spreading
C2_Witness ==
    /\ pc = "done"
    /\ (simulation_hours * 60) % time_step_minutes # 0
    /\ step_count = StepCap
    /\ \E s \in Cells : SpreadingAt(StepCap - 1, s)

\* C3: a cell without fuel keeps the value the ignition seeding gave it,
\* whatever its neighbours do; it is non-zero only if an ignition point
\* projects to it.
C3_NoFuelNeverIgnites ==
    \A c \in Cells :
        fuel_grid[c] <= 0 =>
            /\ fire_grid[c] = SeededGrid[c]
            /\ fire_grid[c] # 0 => c \in IgnitionCells

\* a transition step was taken while a cell without fuel had a spreading
\* neighbour, and a cell without fuel carries a seeded value
C3_Witness ==
    /\ \E c \in Cells : \E s \in NeighboursOf(c) :
          fuel_grid[c] <= 0 /\ SpreadingAt(1, s) /\ fire_grid[s] # Snapshot(1)[s]
    /\ \E c \in Cells : fuel_grid[c] <= 0 /\ fire_grid[c] > 0

\* C4: two simulators built from identical arguments (ignition points,
\* bounds, weather, configuration) produce identical snapshot histories.
C4_Determinism ==
    (twin.active /\ pc = "done" /\ twin.pc = "done") => twin.history = history

\* Scenario B: the fuel grid is 0 everywhere except at the single ignition cell
ScenarioB ==
    /\ Cardinality(IgnitionCells) = 1
    /\ \A c \in Cells : fuel_grid[c] = IF c \in IgnitionCells THEN 1 ELSE 0
    /\ \A c \in Cells : moisture_grid[c] < moisture_extinction

TheIgnitionCell == CHOOSE c \in IgnitionCells : TRUE

\* C5 as claimed: in Scenario B the first step() returns still_burning =
\* false and leaves the ignition cell at its seeded value.
C5_ScenarioB_AsClaimed ==
    (ScenarioB /\ current_step = 1) =>
        /\ ~still_burning
        /\ fire_grid[TheIgnitionCell] = SeededGrid[TheIgnitionCell]

\* C5 amended: in Scenario B no cell other than the ignition cell ever
\* leaves 0; the ignition cell itself keeps burning: seeded with v in (0,1),
\* the first step (a transition step) returns true and sets it to v + 0.1,
\* or to -1 when v + 0.1 >= 0.95; seeded with 0 or 1.0, the first step
\* returns false and leaves it unchanged.
C5_ScenarioB ==
    ScenarioB =>
        /\ \A c \in Cells \ IgnitionCells : fire_grid[c] = 0
        /\ current_step = 1 =>
              LET v == SeededGrid[TheIgnitionCell]
              IN  IF v > 0 /\ v < 1000 /\ ~EndTimeReached(1)
                  THEN /\ still_burning
                       /\ fire_grid[TheIgnitionCell] =
                             IF v + 100 >= 950 THEN -1000 ELSE v + 100
                  ELSE /\ ~still_burning
                       /\ fire_grid[TheIgnitionCell] = v

\* Scenario B after its first step, from a seeded value that burns out in
\* that step
C5_Witness ==
    /\ ScenarioB
    /\ current_step = 1
    /\ SeededGrid[TheIgnitionCell] = 900
    /\ fire_grid[TheIgnitionCell] = BurnedOut

\* the cell of the single ignition point and the columns east of it
EastOf(c) == {e \in Cells : e[2] > c[2]}

\* the state is one of a Scenario A run
InScenarioA ==
    /\ Len(ignition_points) = 1
    /\ TheIgnitionCell = <<(y_size - 1) \div 2, (x_size - 1) \div 2>>
    /\ resolution_meters = 500 /\ simulation_hours = 24 /\ time_step_minutes = 30
    /\ weather_data = WestWind
    /\ \A c \in Cells : fuel_grid[c] = 1 /\ moisture_grid[c] = DefaultMoisture

\* C6 as claimed: in Scenario A the first burned-out cells appear east of
\* the ignition point after at least 2 steps, the burned-out count becomes
\* > 0, and the run terminates at or before step 48.
C6_ScenarioA_AsClaimed ==
    InScenarioA =>
        /\ BurnedOutCells(fire_grid) # {} =>
              /\ current_step >= 2
              /\ \E k \in 1 .. Len(history) :
                    /\ BurnedOutCells(Snapshot(k)) = {}
                    /\ k < Len(history) =>
                          /\ BurnedOutCells(Snapshot(k + 1)) # {}
                          /\ BurnedOutCells(Snapshot(k + 1)) \subseteq EastOf(TheIgnitionCell)
                    /\ k = Len(history) =>
                          BurnedOutCells(fire_grid) \subseteq EastOf(TheIgnitionCell)
        /\ pc = "done" => BurnedOutCells(fire_grid) # {}
        /\ current_step <= 48

\* C6 amended: in Scenario A with a seeded value in (0,1) no cell burns out
\* before the ignition cell does; a cell other than the ignition cell burns
\* out only after at least 2 steps and never before some cell east of the
\* ignition column has burned out; the burned-out count is > 0 when the run
\* ends; the run ends at or before step 48.  With a seeded value of 0 or 1.0 no cell ever changes and the
\* run ends after its first step with a burned-out count of 0.
C6_ScenarioA ==
    InScenarioA =>
        LET ign    == TheIgnitionCell
            v      == SeededGrid[ign]
            others == BurnedOutCells(fire_grid) \ {ign}
        IN  /\ current_step <= 48
            /\ (v > 0 /\ v < 1000) =>
                  /\ others # {} =>
                        /\ current_step >= 2
                        /\ fire_grid[ign] = BurnedOut
                        /\ others \cap EastOf(ign) # {}
                  /\ pc = "done" => BurnedOutCells(fire_grid) # {}
            /\ (v = 0 \/ v = 1000) =>
                  /\ fire_grid = SeededGrid
                  /\ pc = "done" => current_step = 1

\* a Scenario A run in which cells east of the ignition column have burned
\* out while the cells west of it are still burning
C6_Witness ==
    /\ InScenarioA
    /\ x_size = 5
    /\ fire_grid[TheIgnitionCell] = BurnedOut
    /\ \E e \in EastOf(TheIgnitionCell) : fire_grid[e] = BurnedOut
    /\ \A c \in Cells : c[2] < TheIgnitionCell[2] => (fire_grid[c] > 0 /\ fire_grid[c] < 1000)

\* a call of calculate_spread_rate has returned rates for a cell with zero
\* slope while the wind speed is 0
CalmFlatCall ==
    /\ probe.op = "calculate_spread_rate"
    /\ DOMAIN probe.spread_directions # {}
    /\ wind_speed = 0
    /\ slope_grid[probe.cell] = 0

\* C7: with wind speed 0 and slope 0 at the cell, the per-direction factor
\* is exactly 1 in all 8 directions whatever the wind direction, so every
\* directional rate equals the base rate and the maximum rate.
C7_CalmFlatIsotropic ==
    CalmFlatCall =>
        /\ DOMAIN probe.spread_directions = DirSet
        /\ \A d \in DirSet :
              /\ DirectionFactor(Azimuth(d), 0, aspect_grid[probe.cell]) = 1000
              /\ probe.spread_directions[d] = BaseSpread(moisture_grid[probe.cell])
              /\ probe.spread_directions[d] = probe.spread_rate

\* a calm flat call under a wind direction that is no multiple of 45 degrees
C7_Witness ==
    /\ CalmFlatCall
    /\ wind_direction % 45 # 0
    /\ probe.spread_rate > 0

\* a round trip has been made from a point inside the simulation bounds
InsideRoundTrip ==
    /\ probe.op = "round_trip"
    /\ bounds.min_lat <= probe.lat /\ probe.lat <= bounds.max_lat
    /\ bounds.min_lon <= probe.lon /\ probe.lon <= bounds.max_lon

\* C8 as claimed: for every point inside the simulation bounds,
\* grid_to_latlon(latlon_to_grid(lat, lon)) is the centre of the cell that
\* contains the point and lies within one resolution of the point, in
\* planar grid coordinates.
C8_RoundTrip ==
    InsideRoundTrip =>
        LET p    == ToUtm(probe.lon, probe.lat, convergence)
            q    == ToUtm(probe.back[2], probe.back[1], convergence)
            half == resolution_meters \div 2
        IN  /\ q = CellCentre(SelfGrid, resolution_meters, probe.cell[1], probe.cell[2])
            /\ q[1] - half <= p[1] /\ p[1] < q[1] + half
            /\ q[2] - half <= p[2] /\ p[2] < q[2] + half
            /\ Dist2(p, q) <= resolution_meters * resolution_meters

\* C9: latlon_to_grid returns an index inside the grid for every point,
\* points outside the bounds included, so every ignition point is seeded
\* into an existing cell.
C9_IndexInsideGrid ==
    /\ probe.op = "round_trip" => probe.cell \in Cells
    /\ DOMAIN fire_grid = Cells
    /\ \A i \in 1 .. Len(ignition_points) :
          LET c == latlon_to_grid(ignition_points[i].lat, ignition_points[i].lon)
          IN  c \in Cells /\ fire_grid[c] = SeedValue(ignition_points[i].intensity)

\* a point beyond the north-east corner has been mapped to the last cell
C9_Witness ==
    /\ probe.op = "round_trip"
    /\ probe.lat > bounds.max_lat /\ probe.lon > bounds.max_lon
    /\ probe.cell = <<y_size - 1, x_size - 1>>
    /\ \E i \in 1 .. Len(ignition_points) : ignition_points[i].lat > bounds.max_lat

\* the points extract_perimeters builds its polygon from, for history entry k
FirePoints(k) == SeqRange(fire_cells(history[k].grid))

\* C10: every polygon of every perimeters[timestamp] list that
\* generate_results produces is closed, its first and last points equal, on
\* the convex-hull path as on the bounding-box path.
C10_PerimetersClosed ==
    pc = "done" =>
        \A k \in 1 .. Len(results.perimeters) :
            \A j \in 1 .. Len(results.perimeters[k].value) :
                LET polygon == results.perimeters[k].value[j]
                IN  Len(polygon) >= 2 /\ polygon[1] = polygon[Len(polygon)]

\* results whose perimeters hold a convex-hull polygon with at least 3
\* vertices for one timestamp and a bounding-box polygon for another
C10_Witness ==
    /\ pc = "done"
    /\ \E k \in 1 .. Len(results.perimeters) :
          /\ ~HullFails(FirePoints(time_points(history)[k]))
          /\ Len(results.perimeters[k].value[1]) >= 4
    /\ \E k \in 1 .. Len(results.perimeters) :
          /\ HullFails(FirePoints(time_points(history)[k]))
          /\ Len(results.perimeters[k].value) = 1

\* the snapshot that entry k of the results was built from
ReportedSnapshot(k) == history[time_points(history)[k]].grid

\* C11: every value of every intensity_grid[timestamp] array is in [0,1]; a
\* cell that is burned out in the snapshot is reported as 1.0 and every
\* other reported cell carries its snapshot value.
C11_IntensityGridRange ==
    pc = "done" =>
        \A k \in 1 .. Len(results.intensity_grid) :
            LET reported == results.intensity_grid[k].value
                snapshot == ReportedSnapshot(k)
            IN  \A c \in DOMAIN reported :
                    /\ 0 <= reported[c] /\ reported[c] <= One
                    /\ reported[c] = IF snapshot[c] = BurnedOut THEN One ELSE snapshot[c]

\* a downsampled intensity grid that reports a burned-out cell
C11_Witness ==
    /\ pc = "done"
    /\ x_size > MaxGridOutput
    /\ \E k \in 1 .. Len(results.intensity_grid) :
          /\ DOMAIN results.intensity_grid[k].value # Cells
          /\ \E c \in DOMAIN results.intensity_grid[k].value :
                ReportedSnapshot(k)[c] = BurnedOut

\* the timestamps of a results mapping and of the history
KeysOf(entries) == {entries[k].key : k \in 1 .. Len(entries)}

\* C12: perimeters and intensity_grid have the same timestamps; these are
\* timestamps of the history and include those of the first and of the
\* final snapshot.
C12_SameTimestamps ==
    pc = "done" =>
        /\ Len(history) >= 1
        /\ KeysOf(results.perimeters) = KeysOf(results.intensity_grid)
        /\ Len(results.perimeters) = Len(results.intensity_grid)
        /\ \A k \in 1 .. Len(results.perimeters) :
              results.perimeters[k].key = results.intensity_grid[k].key
        /\ KeysOf(results.perimeters) \subseteq KeysOf(history)
        /\ history[1].key \in KeysOf(results.perimeters)
        /\ history[Len(history)].key \in KeysOf(results.perimeters)

\* results of a history longer than 10 whose stride misses the final
\* snapshot, so that its timestamp was added after the subsample
C12_Witness ==
    /\ pc = "done"
    /\ Len(history) > TargetTimePoints
    /\ (Len(history) - 1) % (Len(history) \div TargetTimePoints) # 0
    /\ Cardinality(KeysOf(results.perimeters)) < Len(history)

\* a step has raised and the run is over
Aborted == pc \in {"raised", "failed"}

\* C13: when a step fails, no further step is executed, no results are
\* built from the partial history, and the handler answers with an error
\* (statusCode 500 and a body that holds only the error).
C13_FailedStepAborts ==
    /\ [](Aborted => /\ DOMAIN results.metadata = {"time_steps_simulated"}
                     /\ results.perimeters = <<>> /\ results.intensity_grid = <<>>)
    /\ [][Aborted => /\ Aborted'
                     /\ UNCHANGED <<fire_grid, history, current_step, current_time,
                                    step_count, still_burning, results>>]_vars
    /\ [](pc = "failed" => /\ probe.statusCode = 500
                           /\ DOMAIN probe.body = {"error"})

\* a step raised after recording its snapshot, in a run that had completed
\* steps before, and the handler has answered
C13_Witness ==
    /\ pc = "failed"
    /\ step_count >= 2
    /\ Len(history) = step_count + 1
    /\ probe.statusCode = 500

\* entry k of the perimeters was built from a snapshot whose fire cells are
\* degenerate for the hull: fewer than 3 points, or all on one line
DegenerateEntry(k) ==
    /\ FirePoints(time_points(history)[k]) # {}
    /\ HullFails(FirePoints(time_points(history)[k]))

\* the fallback was taken for entry k: one closed bounding-box polygon of 4
\* corners and the closing point
BoxReturned(k) ==
    LET P == FirePoints(time_points(history)[k])
        v == results.perimeters[k].value
    IN  /\ Len(v) = 1
        /\ v[1] = BoxPerimeter(P)
        /\ Len(v[1]) = 5 /\ v[1][1] = v[1][5]

\* whatever extract_perimeters and generate_results return for entry k
\* carries a mark of approximation: in the entry, in a point of its
\* polygon, or in the metadata
MarkedApproximate(k) ==
    \/ "approximation" \in DOMAIN results.perimeters[k]
    \/ "approximation" \in DOMAIN results.metadata
    \/ \E j \in 1 .. Len(results.perimeters[k].value) :
          \E i \in 1 .. Len(results.perimeters[k].value[j]) :
              "approximation" \in DOMAIN results.perimeters[k].value[j][i]

\* C14 as claimed: for a snapshot whose fire cells are degenerate for hull
\* computation, extract_perimeters returns the closed bounding-box polygon
\* of the fire cells, and the result is marked as an approximation.
C14_DegenerateMarked ==
    pc = "done" =>
        \A k \in 1 .. Len(results.perimeters) :
            DegenerateEntry(k) => (BoxReturned(k) /\ MarkedApproximate(k))

\* the largest number of burning cells whose processing orders are compared
MaxPermuted == 4

\* every order in which the cells of S can be processed
ProcessingOrders(S) ==
    {o \in [1 .. Cardinality(S) -> S] :
        \A i, j \in 1 .. Cardinality(S) : i # j => o[i] # o[j]}

\* a transition step is about to be taken from the current grid
TransitionDue ==
    /\ pc = "run"
    /\ LoopGuard(still_burning, step_count)
    /\ ~EndTimeReached(current_step + 1)

\* C15 as claimed: the new grid of a step does not depend on the order in
\* which the burning cells are processed: any two processing orders of the
\* same pre-step grid, with the same ignition outcomes, give the same new
\* grid.
C15_OrderIndependent ==
    (TransitionDue /\ Cardinality(BurningSet(fire_grid)) <= MaxPermuted) =>
        \A lucky \in SUBSET OpenDraws(SelfSim) :
            \A o1, o2 \in ProcessingOrders(BurningSet(fire_grid)) :
                Transition(fire_grid, slope_grid, aspect_grid, o1, lucky).grid
                  = Transition(fire_grid, slope_grid, aspect_grid, o2, lucky).grid

\* the state of a cell: 0 is unburned, a positive value is burning, a
\* negative value is burned out
CellState(v) == IF v = 0 THEN "Unburned" ELSE IF v > 0 THEN "Burning" ELSE "BurnedOut"

\* the moves a cell may make in one step
ForwardMoves ==
    {<<"Unburned", "Unburned">>, <<"Unburned", "Burning">>, <<"Burning", "Burning">>,
     <<"Burning", "BurnedOut">>, <<"BurnedOut", "BurnedOut">>}

\* C16: in every step each cell keeps its state or moves forward along
\* Unburned -> Burning -> BurnedOut; no cell goes from Burning back to
\* Unburned, none from Unburned to BurnedOut within one step, and none
\* leaves BurnedOut.
C16_CellStateMachine ==
    [][\A c \in Cells :
          <<CellState(fire_grid[c]), CellState(fire_grid'[c])>> \in ForwardMoves]_vars

\* a step in which one cell went from Unburned to Burning and another from
\* Burning to BurnedOut, and a later step in which the first burned out
C16_Witness ==
    \E k \in 1 .. Len(history) - 1 : \E c, b \in Cells :
        /\ CellState(Snapshot(k)[c]) = "Unburned"
        /\ CellState(Snapshot(k + 1)[c]) = "Burning"
        /\ CellState(Snapshot(k)[b]) = "Burning"
        /\ CellState(Snapshot(k + 1)[b]) = "BurnedOut"
        /\ CellState(fire_grid[c]) = "BurnedOut"

\* the time, in minutes, that a history key stands for
TimeOfKey(key) == key[1] * 1440 + key[2] * 60 + key[3]

\* C17: the history is append-only and pre-step: each step adds exactly one
\* snapshot, the fire grid as it was before the step's transition, keyed by
\* start + k * time_step_minutes for the k-th step; earlier snapshots are
\* never changed or removed, keys increase strictly, and there are as many
\* snapshots as steps taken.
C17_HistoryAppendOnly ==
    /\ [](/\ Len(history) = current_step
          /\ Len(history) = step_count
          /\ \A k \in 1 .. Len(history) :
                /\ history[k].key
                     = isoformat(EarliestTime(ignition_points) + k * time_step_minutes)
                /\ k > 1 => TimeOfKey(history[k - 1].key) < TimeOfKey(history[k].key)
          /\ Len(history) >= 1 => history[1].grid = SeededGrid)
    /\ [][history' # history =>
            /\ Len(history') = Len(history) + 1
            /\ SubSeq(history', 1, Len(history)) = history
            /\ history'[Len(history')].grid = fire_grid
            /\ current_step' = current_step + 1]_vars

\* a history of at least 3 snapshots that differ, from a start time other
\* than 0, with the grid changed again since the last snapshot
C17_Witness ==
    /\ Len(history) >= 3
    /\ EarliestTime(ignition_points) > 0
    /\ history[1].grid # history[2].grid
    /\ history[2].grid # history[3].grid
    /\ fire_grid # history[Len(history)].grid

\* C18: a step whose elapsed time (step number * time_step_minutes) reaches
\* simulation_hours * 60 returns false and performs no transition: it
\* advances the time and records the snapshot, and leaves every cell of the
\* fire grid unchanged.
C18_EndTimeStepIsFrame ==
    [][(history' # history
          /\ current_step' * time_step_minutes >= simulation_hours * 60) =>
            /\ fire_grid' = fire_grid
            /\ ~still_burning'
            /\ current_time' = current_time + time_step_minutes
            /\ Len(history') = Len(history) + 1
            /\ history'[Len(history')].grid = fire_grid]_vars

\* the end-time step has been taken from a grid in which a cell was burning
\* with fuel, next to an unburned cell with fuel that it would have ignited
C18_Witness ==
    /\ current_step >= 2
    /\ current_step * time_step_minutes >= simulation_hours * 60
    /\ ~still_burning
    /\ fire_grid = history[Len(history)].grid
    /\ \E s \in Cells : \E n \in NeighboursOf(s) :
          /\ fire_grid[s] > 0 /\ fire_grid[s] < One
          /\ fuel_grid[s] > 0 /\ moisture_grid[s] < moisture_extinction
          /\ fire_grid[n] = 0 /\ fuel_grid[n] > 0

\* the step being taken is a transition step
TransitionStep ==
    /\ history' # history
    /\ current_step' * time_step_minutes < simulation_hours * 60

\* cell c burns with a positive spread rate in grid g
BurnsWithRate(g, c) ==
    /\ g[c] > 0 /\ g[c] < 1000
    /\ fuel_grid[c] > 0 /\ moisture_grid[c] < moisture_extinction

\* the grid after step j of the run so far
GridAfter(j) == IF j < Len(history) THEN Snapshot(j + 1) ELSE fire_grid

\* a cell burning with a positive rate before step k is burned out after
\* the 10 transition steps k .. k + 9, when the run gets that far
BurnedOutWithinTen ==
    \A k \in 1 .. Len(history) : \A c \in Cells :
        (BurnsWithRate(Snapshot(k), c) /\ k + 9 <= Len(history)
           /\ (k + 9) * time_step_minutes < simulation_hours * 60) =>
            GridAfter(k + 9)[c] = -1000

\* C19 as claimed: a burning cell with a positive spread rate gains exactly
\* 0.1 per transition step and is set to -1 in the first step where the
\* result is >= 0.95; hence a cell burning with a value in (0,1) is burned
\* out after at most 10 transition steps.
C19_ExactIncrement ==
    /\ [][TransitionStep =>
            \A c \in Cells :
                BurnsWithRate(fire_grid, c) =>
                    fire_grid'[c] = IF fire_grid[c] + 100 >= 950 THEN -1000
                                    ELSE fire_grid[c] + 100]_vars
    /\ []BurnedOutWithinTen

\* C19 amended: in a transition step a burning cell with a positive spread
\* rate gains at least 0.1, or is set to -1; it is set to -1 whenever its
\* value plus 0.1 is >= 0.95; from a value >= 0.5 it gains exactly 0.1, and
\* from a value below 0.5 it ends at no more than 0.6 (a burning neighbour
\* may first stage up to 0.5 into it); hence it is burned out after at most
\* 10 transition steps, unless the run terminates first.
C19_AtLeastIncrement ==
    /\ [][TransitionStep =>
            \A c \in Cells :
                BurnsWithRate(fire_grid, c) =>
                    LET v == fire_grid[c]
                        w == fire_grid'[c]
                    IN  /\ w = -1000 \/ (v + 100 <= w /\ w < 950)
                        /\ v + 100 >= 950 => w = -1000
                        /\ v >= 500 => (w = -1000 \/ w = v + 100)
                        /\ v < 500 => (w = -1000 \/ w <= 600)]_vars
    /\ []BurnedOutWithinTen

\* a cell that burned through 10 transition steps and burned out in the
\* 10th, in a run where some burning cell gained more than 0.1 in one step
C19_Witness ==
    /\ \E k \in 1 .. Len(history) : \E c \in Cells :
          /\ BurnsWithRate(Snapshot(k), c)
          /\ k + 9 <= Len(history)
          /\ GridAfter(k + 8)[c] > 0
          /\ GridAfter(k + 9)[c] = -1000
    /\ \E k \in 1 .. Len(history) - 1 : \E c \in Cells :
          /\ BurnsWithRate(Snapshot(k), c)
          /\ Snapshot(k + 1)[c] > Snapshot(k)[c] + 100

\* new_grid as staged in the pending transition when the j-th burning cell
\* has been raised and is about to spread
StagedRaised(j, lucky) ==
    LET order == burning_indices(fire_grid)
        cell  == order[j]
        pre   == ProcessCells(fire_grid, slope_grid, aspect_grid,
                              [grid |-> fire_grid, still_burning |-> FALSE],
                              SubSeq(order, 1, j - 1), lucky)
    IN  [grid |-> [pre.grid EXCEPT ![cell] = RaiseIntensity(pre.grid[cell])],
         still_burning |-> TRUE]

\* new_grid just before the cell spreads in its i-th direction, from the
\* grid staged when it was raised
StagedBefore(raised, cell, r, i, lucky) ==
    SpreadAll(fire_grid, raised, cell, SubSeq(Directions, 1, i - 1), r, lucky)

\* the burning cells of the pending transition that spread, by position
SpreadingPositions ==
    {j \in 1 .. Len(burning_indices(fire_grid)) :
        calculate_spread_rate(fire_grid, slope_grid, aspect_grid,
                              burning_indices(fire_grid)[j]).spread_rate > 0}

\* C20: propagation never lowers a staged intensity and never overwrites a
\* burned-out cell: it writes only the neighbour, only the new intensity
\* min(0.5, currentIntensity * directionalRate / maxRate), and only when
\* that is strictly greater than the staged value and the staged value is
\* >= 0; so a cell unburned before a step holds a value in [0, 0.5] after it.
C20_PropagationOnlyRaises ==
    /\ [](TransitionDue =>
            \A lucky \in SUBSET OpenDraws(SelfSim) : \A j \in SpreadingPositions :
                LET cell   == burning_indices(fire_grid)[j]
                    r      == calculate_spread_rate(fire_grid, slope_grid,
                                                    aspect_grid, cell)
                    raised == StagedRaised(j, lucky)
                IN  \A i \in 1 .. Len(Directions) :
                        LET before == StagedBefore(raised, cell, r, i, lucky)
                            after  == SpreadTo(fire_grid, before, cell, Directions[i],
                                               r, lucky)
                            ni     == Min(500, Max(1, (fire_grid[cell]
                                                  * r.spread_directions[Directions[i]])
                                                 \div r.spread_rate))
                        IN  \A c \in Cells :
                                after.grid[c] # before.grid[c] =>
                                    /\ c = Neighbour(cell, Directions[i])
                                    /\ before.grid[c] >= 0
                                    /\ after.grid[c] = ni
                                    /\ ni > before.grid[c])
    /\ [][\A c \in Cells : fire_grid[c] = 0 =>
              (0 <= fire_grid'[c] /\ fire_grid'[c] <= 500)]_vars

\* a pending transition in which a cell has burned out in new_grid and a
\* burning neighbour processed after it spreads toward it, in a run in
\* which an unburned cell has been ignited by propagation
C20_Witness ==
    /\ TransitionDue
    /\ \E j \in SpreadingPositions :
          LET cell   == burning_indices(fire_grid)[j]
              raised == StagedRaised(j, {})
          IN  \E d \in DirSet :
                  /\ Neighbour(cell, d) \in Cells
                  /\ fire_grid[Neighbour(cell, d)] > 0
                  /\ fuel_grid[Neighbour(cell, d)] > 0
                  /\ raised.grid[Neighbour(cell, d)] = BurnedOut
    /\ \E k \in 1 .. Len(history) - 1 : \E c \in Cells :
          Snapshot(k)[c] = 0 /\ Snapshot(k + 1)[c] > 0

\* the ignition points that project to cell c, by position in the list
PointsAt(c) ==
    {i \in 1 .. Len(ignition_points) :
        latlon_to_grid(ignition_points[i].lat, ignition_points[i].lon) = c}

\* clamp(intensity / 100, 0, 1)
Clamp01(intensity) == Max(0, Min(1000, intensity * 10))

\* C21: seeding sets the cell of each ignition point, in list order (the
\* last point on a cell wins), to clamp(intensity/100, 0, 1) whatever the
\* fuel there; every other cell starts at 0; so the initial grid has only
\* values in [0,1].
C21_SeedingClamped ==
    current_step = 0 =>
        \A c \in Cells :
            /\ fire_grid[c] = IF PointsAt(c) = {} THEN 0
                              ELSE Clamp01(ignition_points[SetMax(PointsAt(c))].intensity)
            /\ 0 <= fire_grid[c] /\ fire_grid[c] <= 1000

\* before the first step: a cell seeded by the later of two points of
\* different intensity, a seeded cell without fuel and an intensity above 100
C21_Witness ==
    /\ current_step = 0
    /\ \E c \in Cells : \E i, j \in PointsAt(c) :
          /\ i < j
          /\ SeedValue(ignition_points[i].intensity) # SeedValue(ignition_points[j].intensity)
          /\ fire_grid[c] = SeedValue(ignition_points[j].intensity)
    /\ \E c \in Cells : PointsAt(c) # {} /\ fuel_grid[c] = 0 /\ fire_grid[c] > 0
    /\ \E i \in 1 .. Len(ignition_points) : ignition_points[i].intensity > 100

\* the planar extent of the bounds on each axis
SpanX == ToUtm(bounds.max_lon, bounds.max_lat, convergence)[1]
           - ToUtm(bounds.min_lon, bounds.min_lat, convergence)[1]
SpanY == ToUtm(bounds.max_lon, bounds.max_lat, convergence)[2]
           - ToUtm(bounds.min_lon, bounds.min_lat, convergence)[2]

\* the grids have y_size rows and x_size columns
ShapeIsSize ==
    \A g \in {fire_grid, fuel_grid, moisture_grid, slope_grid, aspect_grid} :
        DOMAIN g = (0 .. y_size - 1) \X (0 .. x_size - 1)

\* C22 as claimed: the grid dimensions are, per axis, ceil(span/resolution) + 1
\* of the planar extent of the bounds, throughout the run.
C22_CeilPlusOne ==
    /\ x_size = CeilDiv(SpanX, resolution_meters) + 1
    /\ y_size = CeilDiv(SpanY, resolution_meters) + 1
    /\ ShapeIsSize

\* C22 amended: the grid dimensions are, per axis, floor(span/resolution) + 1,
\* i.e. the one n with (n-1)*resolution <= span < n*resolution, a function of
\* bounds and resolution alone, and every grid keeps that shape throughout the
\* run.
C22_FloorPlusOne ==
    /\ (x_size - 1) * resolution_meters <= SpanX
    /\ SpanX < x_size * resolution_meters
    /\ (y_size - 1) * resolution_meters <= SpanY
    /\ SpanY < y_size * resolution_meters
    /\ ShapeIsSize

\* after a step, a grid whose east-west extent is not a whole number of cells
\* and whose north-south extent is
C22_Witness ==
    /\ current_step >= 1
    /\ SpanX % resolution_meters # 0
    /\ SpanY % resolution_meters = 0

\* the number of timestamps generate_results reports
ReportedCount == Cardinality(KeysOf(results.perimeters))

NonZero(grid) == {c \in DOMAIN grid : grid[c] # 0}

\* the cells that were burning or burned out at any time of the run so far
EverNonZero ==
    NonZero(fire_grid) \cup UNION {NonZero(history[k].grid) : k \in 1 .. Len(history)}

\* C24: the set of non-zero cells never shrinks from one snapshot to the
\* next; total_burned_cells counts every cell that was burning or burned out
\* at any time of the run and is at least initial_burning_cells;
\* area_burned_sqkm = total_burned_cells * (resolution/1000)^2 (compared in
\* square metres).
C24_EverBurnedCovers ==
    /\ \A k \in 1 .. Len(history) - 1 :
          NonZero(history[k].grid) \subseteq NonZero(history[k + 1].grid)
    /\ pc = "done" =>
          /\ results.metadata.total_burned_cells = Cardinality(EverNonZero)
          /\ results.metadata.total_burned_cells
               >= results.metadata.initial_burning_cells
          /\ results.metadata.area_burned
               = results.metadata.total_burned_cells
                   * resolution_meters * resolution_meters

\* results of a run in which the fire spread and a cell burned out
C24_Witness ==
    /\ pc = "done"
    /\ Len(history) >= 3
    /\ results.metadata.total_burned_cells > results.metadata.initial_burning_cells
    /\ \E c \in Cells : fire_grid[c] = BurnedOut
    /\ \E c \in Cells : fire_grid[c] > 0

\* C25: a step writes only the fire grid, the current time, the step counter
\* and the history: the fuel, moisture, slope and aspect grids, the weather
\* and the configuration are unchanged by any step; generate_results changes
\* neither the fire grid nor any snapshot of the history.
C25_Frame ==
    [][ /\ UNCHANGED <<configVars, terrainVars>>
        /\ pc' = pc => results' = results
        /\ pc' # pc => UNCHANGED <<fire_grid, history, current_step, current_time>>
      ]_vars

\* results built from a history in which a reported snapshot holds a
\* burned-out cell, which the output shows as 1.0
C25_Witness ==
    /\ pc = "done"
    /\ current_step >= 2
    /\ \E k \in 1 .. Len(results.intensity_grid) :
          \E j \in 1 .. Len(history) :
             /\ history[j].key = results.intensity_grid[k].key
             /\ \E c \in Cells : history[j].grid[c] = BurnedOut

\* the last step taken was a transition step, from the last snapshot to the
\* current fire grid
LastStepWasTransition == current_step >= 1 /\ ~EndTimeReached(current_step)

\* the cells on the edge of the grid
EdgeCells ==
    {c \in Cells : c[1] \in {0, y_size - 1} \/ c[2] \in {0, x_size - 1}}

\* cells c and s are the same or touch by a side or a corner
Adjacent(c, s) == Abs(c[1] - s[1]) <= 1 /\ Abs(c[2] - s[2]) <= 1

\* C26: spread from a burning cell on the edge or in a corner skips the
\* neighbour offsets outside the grid: a transition step changes only cells
\* of the grid that are, or touch, a cell burning before the step (nothing
\* wraps around to the opposite edge), and the in-grid neighbours of an edge
\* cell are still processed: each fuelled, unburned one that the spread
\* reaches with certainty is ignited.
C26_NoWrapAround ==
    LastStepWasTransition =>
        LET before == Snapshot(Len(history))
        IN  /\ DOMAIN fire_grid = Cells
            /\ \A c \in Cells :
                  fire_grid[c] # before[c] =>
                      \E s \in Cells :
                          Adjacent(c, s) /\ before[s] > 0 /\ before[s] < One
            /\ \A s \in EdgeCells :
                  SpreadingAt(Len(history), s) =>
                      LET r == calculate_spread_rate(before, slope_grid, aspect_grid, s)
                      IN  \A d \in DirSet :
                              LET n == <<s[1] + d_row(d), s[2] + d_col(d)>>
                              IN  (/\ n \in Cells
                                   /\ fuel_grid[n] > 0 /\ before[n] = 0
                                   /\ SpreadCertain(r.spread_directions[d], d)) =>
                                      fire_grid[n] > 0

\* the first step spread from the south-west corner cell of a grid of at least
\* 3 x 3 cells: its three neighbours in the grid burn, the opposite edges do
\* not
C26_Witness ==
    /\ current_step = 1 /\ LastStepWasTransition
    /\ x_size >= 3 /\ y_size >= 3
    /\ \A c \in Cells : Snapshot(1)[c] # 0 <=> c = <<0, 0>>
    /\ SpreadingAt(1, <<0, 0>>)
    /\ \A c \in {<<0, 1>>, <<1, 0>>, <<1, 1>>} : fire_grid[c] > 0
    /\ \A c \in Cells : (c[1] = y_size - 1 \/ c[2] = x_size - 1) => fire_grid[c] = 0

\* the neighbour that step() targets from cell c in direction d lies, by the
\* cell centres of grid_to_latlon, where the label of d says
TargetLiesAhead(c, d) ==
    LET n    == Neighbour(c, d)
        from == grid_to_latlon(c[1], c[2])
        to   == grid_to_latlon(n[1], n[2])
    IN  CASE d = "N" -> to[1] > from[1]
          [] d = "S" -> to[1] < from[1]
          [] d = "E" -> to[2] > from[2]
          [] d = "W" -> to[2] < from[2]

\* the wind blows toward the north (it comes from the south)
WindTowardNorth == wind_speed > 0 /\ wind_direction = 180

\* C27 as claimed: the neighbour targeted by a step for direction N (S, E, W)
\* is the cell whose centre lies north (south, east, west) of the source
\* cell, so that after a step under wind blowing toward the north, on flat
\* terrain, the cell north of a burning cell is at least as intense as the
\* cell south of it.
C27_LabelsMatchGeography ==
    LastStepWasTransition =>
        LET before == Snapshot(Len(history))
        IN  \A s \in Cells :
                (before[s] > 0 /\ before[s] < One) =>
                    /\ \A d \in {"N", "S", "E", "W"} :
                          Neighbour(s, d) \in Cells => TargetLiesAhead(s, d)
                    /\ (/\ WindTowardNorth
                        /\ \A c \in Cells : slope_grid[c] = 0 /\ fuel_grid[c] > 0
                        /\ \A c \in Cells : before[c] # 0 <=> c = s
                        /\ <<s[1] + 1, s[2]>> \in Cells
                        /\ <<s[1] - 1, s[2]>> \in Cells) =>
                           fire_grid[<<s[1] + 1, s[2]>>] >= fire_grid[<<s[1] - 1, s[2]>>]

\* every ignition point has an intensity of 100 or more
AllAtFullIntensity ==
    \A i \in 1 .. Len(ignition_points) : ignition_points[i].intensity >= 100

\* C28: a cell seeded at exactly 1.0 is never selected as burning: its value
\* never changes (it never burns out) and it ignites no neighbour, a cell
\* changed by a step being, or touching, a cell that burned below 1.0; a run
\* whose ignition points all have an intensity >= 100 gets false from its
\* first step and ends with exactly one snapshot, its grid unchanged.
C28_FullIntensityInert ==
    /\ \A c \in Cells :
          SeededGrid[c] = One =>
              /\ fire_grid[c] = One
              /\ \A k \in 1 .. Len(history) : Snapshot(k)[c] = One
    /\ LastStepWasTransition =>
          \A c \in Cells :
              fire_grid[c] # Snapshot(Len(history))[c] =>
                  \E s \in Cells :
                      /\ Adjacent(c, s)
                      /\ Snapshot(Len(history))[s] > 0
                      /\ Snapshot(Len(history))[s] < One
    /\ AllAtFullIntensity =>
          /\ fire_grid = SeededGrid
          /\ current_step <= 1
          /\ current_step = 1 =>
                ~still_burning /\ Len(history) = 1 /\ Snapshot(1) = SeededGrid
          /\ pc = "done" => current_step = 1 /\ results.metadata.time_steps_simulated = 1

\* a finished run from one ignition point of intensity 100 or more in a cell
\* all of whose neighbours are fuelled and still unburned
C28_Witness ==
    /\ pc = "done"
    /\ AllAtFullIntensity
    /\ Len(history) = 1
    /\ simulation_hours * 60 > time_step_minutes
    /\ \E c \in Cells :
          /\ fire_grid[c] = One
          /\ moisture_grid[c] < moisture_extinction
          /\ Cardinality(NeighboursOf(c)) = 8
          /\ \A n \in NeighboursOf(c) : fuel_grid[n] > 0 /\ fire_grid[n] = 0

\* uniform moisture 0.1, 30-minute steps and a resolution from 100 m to 1000 m
ReferenceConditions ==
    /\ \A c \in Cells : moisture_grid[c] = DefaultMoisture
    /\ time_step_minutes = 30
    /\ resolution_meters >= 100 /\ resolution_meters <= 1000

LoopLeft == pc = "done" \/ (pc = "run" /\ ~LoopGuard(still_burning, step_count))

\* C30: when run_simulation leaves its loop, because a step returned false
\* with nothing spreading or because the time cap was reached, the last
\* snapshot of the history equals the current fire grid cell by cell, so the
\* statistics computed from the last snapshot describe the final state.
C30_LastSnapshotIsFinal ==
    LoopLeft =>
        /\ Len(history) >= 1
        /\ \A c \in Cells : Snapshot(Len(history))[c] = fire_grid[c]
        /\ pc = "done" =>
              results.metadata.total_burned_cells
                = Cardinality({c \in Cells : fire_grid[c] # 0})

\* the loop was left at the end time of a run whose step cap (60 / 45) is not
\* whole, after the fire had moved and while a cell was still burning
C30_Witness ==
    /\ pc = "done"
    /\ (simulation_hours * 60) % time_step_minutes # 0
    /\ current_step >= 2
    /\ EndTimeReached(current_step)
    /\ fire_grid # Snapshot(1)
    /\ \E c \in Cells : BurnsWithRate(fire_grid, c)

====
